---- MODULE Spec2Model ----
(***************************************************************************)
(* Rustoku: the 9x9 board (src/src/sudoku_board.rs).                       *)
(*                                                                         *)
(* A caller holds a config ([[u8; 9]; 9]), calls SudokuBoard::from on it   *)
(* and then calls get / set / validate_move on the board it obtained.      *)
(* Every call is recorded in `last` together with the board value before   *)
(* the call (`prev`), so that the contract of each operation can be stated *)
(* over single states.                                                     *)
(***************************************************************************)
EXTENDS Integers, FiniteSets, Sequences, TLC

\* ------------------------------------------------------------------ bounds
\* number of cells of a base configuration the caller may overwrite before
\* handing it to SudokuBoard::from
MaxEdits == 2
\* number of get / set / validate_move calls made on a constructed board
MaxOps == 3

\* ------------------------------------------------------- program constants
\* side of the grid: [[u8; 9]; 9]
N == 9
\* box side: (r / 3) * 3
B == 3

Idx == 0 .. (N - 1)

\* ------------------------------------------------------------------ inputs
\* cells the caller targets: (0,0)-(0,4) share a row only, (0,0)-(4,0) a
\* column only, (0,0)-(1,1) a box only, (0,4)-(4,0) nothing; the rest lie
\* outside the grid in the row index, the column index or both
InCells == { <<0, 0>>, <<0, 4>>, <<4, 0>>, <<1, 1>> }
OutCells == { <<9, 0>>, <<0, 9>>, <<255, 255>> }
CellInputs == InCells \cup OutCells
\* digits the caller passes: clear, two legal digits, one beyond 9
NumInputs == { 0, 1, 2, 12 }
\* digits the caller writes into a configuration
ConfigNums == { 1, 2, 12 }

\* ------------------------------------------------------------ board values
EmptyConfig == [r \in Idx |-> [c \in Idx |-> 0]]

\* tests::valid_config
valid_config ==
  LET rows == << <<0, 0, 6, 0, 4, 0, 0, 9, 7>>,
                 <<0, 4, 0, 7, 3, 0, 0, 1, 0>>,
                 <<0, 1, 7, 0, 9, 2, 0, 3, 0>>,
                 <<6, 0, 0, 0, 7, 0, 0, 8, 0>>,
                 <<1, 0, 5, 0, 6, 0, 9, 0, 3>>,
                 <<0, 2, 0, 0, 1, 0, 0, 0, 6>>,
                 <<0, 5, 0, 9, 8, 0, 1, 6, 0>>,
                 <<0, 9, 0, 0, 5, 6, 0, 7, 0>>,
                 <<8, 6, 0, 0, 2, 0, 3, 0, 0>> >>
  IN [r \in Idx |-> [c \in Idx |-> rows[r + 1][c + 1]]]

BaseConfigs == { EmptyConfig, valid_config }

RECURSIVE Edited(_)
\* the configurations obtained from a base one by at most n cell writes
Edited(n) ==
  IF n = 0 THEN BaseConfigs
  ELSE LET S == Edited(n - 1)
       IN S \cup { [g EXCEPT ![cell[1]][cell[2]] = d] :
                     g \in S, cell \in InCells, d \in ConfigNums }

ConfigInputs == Edited(MaxEdits)

\* the two strings SudokuBoard::set returns in Err, and the outcome of an
\* index out of range (`self.initial_mask[r][c]` panics)
ErrStartingNumber == "Error: Cannot modify a starting number."
ErrInvalidMove == "Error: Invalid move."
ErrInvalidConfig == "Error: Invalid config used in SudokuBoard::from()."
Panic == "panic: index out of bounds"

\* ------------------------------------------------------- is_valid_config
RECURSIVE NoRepeat(_, _, _)
\* one HashSet scan: vals is the line or box read in the code's order; a
\* non-zero value whose insert() finds it already present ends the scan
NoRepeat(vals, j, seen) ==
  IF j > Len(vals) THEN TRUE
  ELSE IF vals[j] # 0
       THEN IF vals[j] \in seen THEN FALSE
            ELSE NoRepeat(vals, j + 1, seen \cup {vals[j]})
       ELSE NoRepeat(vals, j + 1, seen)

RowVals(config, i) == [j \in 1 .. N |-> config[i][j - 1]]
ColVals(config, i) == [j \in 1 .. N |-> config[j - 1][i]]
BoxVals(config, box_row, box_col) ==
  [k \in 1 .. (B * B) |->
     config[box_row + ((k - 1) \div B)][box_col + ((k - 1) % B)]]

BoxStarts == { i \in Idx : i % B = 0 }

RowsAndColsValid(config) ==
  \A i \in Idx : NoRepeat(RowVals(config, i), 1, {})
                 /\ NoRepeat(ColVals(config, i), 1, {})

BoxesValid(config) ==
  \A box_row \in BoxStarts : \A box_col \in BoxStarts :
     NoRepeat(BoxVals(config, box_row, box_col), 1, {})

is_valid_config_NoBoxes(config) == RowsAndColsValid(config)

is_valid_config(config) == RowsAndColsValid(config) /\ BoxesValid(config)

\* ------------------------------------------------------------------ from
InitialMask_MarksAll(config) == [r \in Idx |-> [c \in Idx |-> TRUE]]

InitialMask(config) == [r \in Idx |-> [c \in Idx |-> config[r][c] # 0]]

\* the value a board variable holds before SudokuBoard::from has returned Ok
NoBoard == [board |-> EmptyConfig, initial_mask |-> InitialMask(EmptyConfig)]

from(config) ==
  IF ~is_valid_config(config)
  THEN [res |-> ErrInvalidConfig, self |-> NoBoard]
  ELSE [res |-> "Ok",
        self |-> [board |-> config, initial_mask |-> InitialMask(config)]]

\* ------------------------------------------------------------------- get
InBounds(cell) == cell[1] \in Idx /\ cell[2] \in Idx

\* Option<u8>: None outside the grid, Some(value) inside
get(self, cell) ==
  IF cell[1] \notin Idx THEN [res |-> "None", val |-> 0]
  ELSE IF cell[2] \notin Idx THEN [res |-> "None", val |-> 0]
  ELSE [res |-> "Some", val |-> self.board[cell[1]][cell[2]]]

\* ------------------------------------------------------------------- set
set_NoMaskCheck(self, cell, num) ==
  LET r == cell[1]
      c == cell[2]
  IN IF ~(r \in Idx /\ c \in Idx) THEN [res |-> Panic, self |-> self]
     ELSE [res |-> "Ok", self |-> [self EXCEPT !.board[r][c] = num]]

set_WriteThenCheck(self, cell, num) ==
  LET r == cell[1]
      c == cell[2]
  IN IF ~(r \in Idx /\ c \in Idx) THEN [res |-> Panic, self |-> self]
     ELSE IF self.initial_mask[r][c]
          THEN [res |-> ErrStartingNumber,
                self |-> [self EXCEPT !.board[r][c] = num]]
          ELSE [res |-> "Ok", self |-> [self EXCEPT !.board[r][c] = num]]

set_ClearRefusedWhenEmpty(self, cell, num) ==
  LET r == cell[1]
      c == cell[2]
  IN IF ~(r \in Idx /\ c \in Idx) THEN [res |-> Panic, self |-> self]
     ELSE IF self.initial_mask[r][c]
          THEN [res |-> ErrStartingNumber, self |-> self]
          ELSE IF num = 0 /\ self.board[r][c] = 0
               THEN [res |-> ErrInvalidMove, self |-> self]
               ELSE [res |-> "Ok", self |-> [self EXCEPT !.board[r][c] = num]]

set_IgnoresZero(self, cell, num) ==
  LET r == cell[1]
      c == cell[2]
  IN IF ~(r \in Idx /\ c \in Idx) THEN [res |-> Panic, self |-> self]
     ELSE IF self.initial_mask[r][c]
          THEN [res |-> ErrStartingNumber, self |-> self]
          ELSE IF num = 0 THEN [res |-> "Ok", self |-> self]
               ELSE [res |-> "Ok", self |-> [self EXCEPT !.board[r][c] = num]]

\* line 45 indexes initial_mask before any bounds check: r or c outside the
\* grid panics there; lines 49-55 then find the element and write it
set(self, cell, num) ==
  LET r == cell[1]
      c == cell[2]
  IN IF ~(r \in Idx /\ c \in Idx) THEN [res |-> Panic, self |-> self]
     ELSE IF self.initial_mask[r][c]
          THEN [res |-> ErrStartingNumber, self |-> self]
          ELSE IF r \in Idx /\ c \in Idx
               THEN [res |-> "Ok", self |-> [self EXCEPT !.board[r][c] = num]]
               ELSE [res |-> ErrInvalidMove, self |-> self]

\* --------------------------------------------------------- validate_move
validate_move_NoBoxScan(self, cell, num) ==
  LET r == cell[1]
      c == cell[2]
  IN IF ~(num \in 0 .. 9) THEN FALSE
     ELSE IF r >= N \/ c >= N THEN FALSE
     ELSE IF self.initial_mask[r][c] THEN FALSE
     ELSE IF num = 0 THEN TRUE
     ELSE IF self.board[r][c] # 0 THEN FALSE
     ELSE IF \E row \in Idx : self.board[row][c] = num THEN FALSE
     ELSE IF \E col \in Idx : self.board[r][col] = num THEN FALSE
     ELSE TRUE

validate_move(self, cell, num) ==
  LET r == cell[1]
      c == cell[2]
      box_r_start == (r \div B) * B
      box_c_start == (c \div B) * B
  IN IF ~(num \in 0 .. 9) THEN FALSE
     ELSE IF r >= N \/ c >= N THEN FALSE
     ELSE IF self.initial_mask[r][c] THEN FALSE
     ELSE IF num = 0 THEN TRUE
     ELSE IF self.board[r][c] # 0 THEN FALSE
     ELSE IF \E row \in Idx : self.board[row][c] = num THEN FALSE
     ELSE IF \E col \in Idx : self.board[r][col] = num THEN FALSE
     ELSE IF \E box_row_offset \in 0 .. (B - 1) :
               \E box_col_offset \in 0 .. (B - 1) :
                  self.board[box_r_start + box_row_offset]
                            [box_c_start + box_col_offset] = num
          THEN FALSE
     ELSE TRUE

\* ================================================================ solver
\* src/src/sudoku_solver.rs.  BacktrackingSolver::run copies the caller's
\* board and drives recursive_solve on the copy; the recursion is unfolded
\* into one step per call, per candidate digit and per return, with the
\* active calls of recursive_solve kept in `stack`.

\* number of get / set / validate_move calls the caller makes around a solve
MaxPlaced == 1
\* largest number of empty cells for which the completions of a board are
\* enumerated exhaustively
MaxBlank == 4

\* tests::solvable_config is valid_config; tests::unsolvable_config
unsolvable_config ==
  [r \in Idx |-> [c \in Idx |->
     IF r = 0 THEN (IF c < N - 1 THEN c + 1 ELSE 0)
     ELSE IF r = 1 /\ c = N - 1 THEN 9 ELSE 0]]

\* the completed grid of solvable_config
solved_config ==
  LET rows == << <<3, 8, 6, 5, 4, 1, 2, 9, 7>>,
                 <<2, 4, 9, 7, 3, 8, 6, 1, 5>>,
                 <<5, 1, 7, 6, 9, 2, 4, 3, 8>>,
                 <<6, 3, 4, 2, 7, 9, 5, 8, 1>>,
                 <<1, 7, 5, 8, 6, 4, 9, 2, 3>>,
                 <<9, 2, 8, 3, 1, 5, 7, 4, 6>>,
                 <<7, 5, 2, 9, 8, 3, 1, 6, 4>>,
                 <<4, 9, 3, 1, 5, 6, 8, 7, 2>>,
                 <<8, 6, 1, 4, 2, 7, 3, 5, 9>> >>
  IN [r \in Idx |-> [c \in Idx |-> rows[r + 1][c + 1]]]

Blanked(g, cells) ==
  [r \in Idx |-> [c \in Idx |-> IF <<r, c>> \in cells THEN 0 ELSE g[r][c]]]

\* (1,4) (1,5) (6,4) (6,5) hold 3 8 8 3 in solved_config: with the four
\* blanked the grid has two completions, with three blanked it has one
four_blank_config == Blanked(solved_config, { <<1, 4>>, <<1, 5>>, <<6, 4>>, <<6, 5>> })
three_blank_config == Blanked(solved_config, { <<1, 4>>, <<1, 5>>, <<6, 4>> })
one_blank_config == Blanked(solved_config, { <<1, 5>> })

SolveConfigs ==
  { valid_config, unsolvable_config, four_blank_config, three_blank_config,
    one_blank_config }

\* cells and digits of the caller's calls around a solve
SolveCells == { <<1, 4>>, <<1, 5>>, <<6, 5>> }
SolveNums == { 0, 3, 8, 12 }

\* ---------------------------------------- is_placement_valid (Board)
\* false iff the digit already appears in the cell's row, column or box at
\* another cell
is_placement_valid(self, cell, num) ==
  LET r == cell[1]
      c == cell[2]
      box_r_start == (r \div B) * B
      box_c_start == (c \div B) * B
  IN /\ \A col \in Idx : col # c => self.board[r][col] # num
     /\ \A row \in Idx : row # r => self.board[row][c] # num
     /\ \A i \in box_r_start .. (box_r_start + B - 1) :
          \A j \in box_c_start .. (box_c_start + B - 1) :
             <<i, j>> # cell => self.board[i][j] # num

\* ------------------------------------------- internal_place (Board)
\* unconditionally grid[cell] = digit
internal_place(self, cell, num) ==
  [self EXCEPT !.board[cell[1]][cell[2]] = num]

\* ------------------------------------------------ find_first_empty_cell
scan_cell_ColsReversed(k) == << k \div N, (N - 1) - (k % N) >>

\* the k-th cell of `for r in 0..9 { for c in 0..9 {`
scan_cell(k) == << k \div N, k % N >>

is_empty_NotDigit(self, cell) ==
  LET v == get(self, cell) IN v.res = "Some" /\ v.val \notin 1 .. 9

\* board.get((r, c)) == Some(0)
is_empty(self, cell) == get(self, cell) = [res |-> "Some", val |-> 0]

\* the positions of the scan at which the loop body would return
EmptyScanPositions(self) ==
  { k \in 0 .. (N * N - 1) : is_empty(self, scan_cell(k)) }

\* returns at the first position of the scan whose cell is empty, None when
\* the loops run out
find_first_empty_cell(self) ==
  LET ks == EmptyScanPositions(self)
  IN IF ks = {} THEN [some |-> FALSE, cell |-> <<0, 0>>]
     ELSE [some |-> TRUE,
           cell |-> scan_cell(CHOOSE k \in ks : \A j \in ks : k <= j)]

\* --------------------------------------------------------------- run
run_NoCopy(init) == [board |-> init, aliased |-> TRUE]

\* let mut board = *init_board: the solver's board is a copy
run(init) == [board |-> init, aliased |-> FALSE]

\* ------------------------------------------------------ recursive_solve
\* for num in 1..=9
FirstNum == 1
LastNum == 9

next_num_Wraps(num) == IF num = LastNum THEN FirstNum ELSE num + 1

next_num(num) == num + 1

retract_Skipped(self, cell) == self

\* board.internal_place(empty_cell, 0)
retract(self, cell) == internal_place(self, cell, 0)

\* ----------------------------------------------------------------- state
VARIABLES
  config,       \* the caller's [[u8; 9]; 9]
  from_result,  \* "none" before SudokuBoard::from, then "Ok" or the Err
  board,        \* the caller's SudokuBoard (NoBoard until from returns Ok)
  prev,         \* the value of board before the last call
  last,         \* the last call: operation, arguments and what it returned
  nops,         \* calls made on the board
  panicked,     \* a call panicked: the program has stopped
  init_board,   \* run: the board the caller passed (its value at the call)
  run_board,    \* run: the local `board` that recursive_solve works on
  aliased,      \* run: the local board is the caller's board, not a copy
  stack,        \* the active calls of recursive_solve, outermost first
  sstate,       \* "idle", "call" (recursive_solve was just called),
                \* "loop" (the innermost call is in its for loop), "returned"
  result        \* what run returned: Some(board) or None

svars == << init_board, run_board, aliased, stack, sstate, result >>

vars == << config, from_result, board, prev, last, nops, panicked,
           init_board, run_board, aliased, stack, sstate, result >>

NoCall == [op |-> "none", cell |-> <<0, 0>>, num |-> 0, res |-> "none", val |-> 0]

NoResult == [tag |-> "none", board |-> NoBoard]

\* no solve has been called
SolverIdle ==
  /\ init_board = NoBoard
  /\ run_board = NoBoard
  /\ aliased = FALSE
  /\ stack = << >>
  /\ sstate = "idle"
  /\ result = NoResult

Init ==
  /\ config \in ConfigInputs
  /\ from_result = "none"
  /\ board = NoBoard
  /\ prev = NoBoard
  /\ last = NoCall
  /\ nops = 0
  /\ panicked = FALSE
  /\ SolverIdle

\* let mut board = SudokuBoard::from(config)
From ==
  /\ from_result = "none"
  /\ LET out == from(config)
     IN /\ from_result' = out.res
        /\ board' = out.self
        /\ prev' = out.self
  /\ UNCHANGED << config, last, nops, panicked >>
  /\ UNCHANGED svars

Callable ==
  /\ from_result = "Ok"
  /\ ~panicked
  /\ nops < MaxOps

\* board.get(cell)
Get(cell) ==
  /\ Callable
  /\ LET out == get(board, cell)
     IN last' = [op |-> "get", cell |-> cell, num |-> 0,
                 res |-> out.res, val |-> out.val]
  /\ prev' = board
  /\ nops' = nops + 1
  /\ UNCHANGED << config, from_result, board, panicked >>
  /\ UNCHANGED svars

\* board.set(cell, num)
Set(cell, num) ==
  /\ Callable
  /\ LET out == set(board, cell, num)
     IN /\ last' = [op |-> "set", cell |-> cell, num |-> num,
                    res |-> out.res, val |-> 0]
        /\ board' = out.self
        /\ panicked' = (out.res = Panic)
  /\ prev' = board
  /\ nops' = nops + 1
  /\ UNCHANGED << config, from_result >>
  /\ UNCHANGED svars

\* board.validate_move(cell, num)
ValidateMove(cell, num) ==
  /\ Callable
  /\ last' = [op |-> "validate_move", cell |-> cell, num |-> num,
              res |-> IF validate_move(board, cell, num) THEN "true" ELSE "false",
              val |-> 0]
  /\ prev' = board
  /\ nops' = nops + 1
  /\ UNCHANGED << config, from_result, board, panicked >>
  /\ UNCHANGED svars

Next ==
  \/ From
  \/ \E cell \in CellInputs : Get(cell)
  \/ \E cell \in CellInputs : \E num \in NumInputs : Set(cell, num)
  \/ \E cell \in CellInputs : \E num \in NumInputs : ValidateMove(cell, num)

Spec == Init /\ [][Next]_vars

\* ------------------------------------------------------- solver actions
Top == stack[Len(stack)]

\* what the caller's board is after the solver's board became b
CallerSees(b) == IF aliased THEN b ELSE board

\* BacktrackingSolver::run(&board): copy the board, call recursive_solve
Run ==
  /\ from_result = "Ok"
  /\ ~panicked
  /\ sstate = "idle"
  /\ LET out == run(board)
     IN /\ run_board' = out.board
        /\ aliased' = out.aliased
  /\ init_board' = board
  /\ stack' = << >>
  /\ sstate' = "call"
  /\ result' = NoResult
  /\ last' = [op |-> "run", cell |-> <<0, 0>>, num |-> 0, res |-> "none", val |-> 0]
  /\ prev' = board
  /\ UNCHANGED << config, from_result, board, nops, panicked >>

\* a call of recursive_solve starts: with an empty cell it enters its for
\* loop; with none it returns true, every caller returns true in turn and
\* run returns Some(board)
SolveEnter ==
  /\ sstate = "call"
  /\ LET e == find_first_empty_cell(run_board)
     IN IF e.some
        THEN /\ stack' = Append(stack, [cell |-> e.cell, num |-> FirstNum,
                                        entry |-> run_board.board, placed |-> 0])
             /\ sstate' = "loop"
             /\ result' = result
        ELSE /\ stack' = << >>
             /\ sstate' = "returned"
             /\ result' = [tag |-> "Some", board |-> run_board]
  /\ UNCHANGED << config, from_result, board, prev, last, nops, panicked,
                  init_board, run_board, aliased >>

\* one iteration of the for loop: a valid digit is placed and
\* recursive_solve is called, any other digit is passed over
SolveTry ==
  /\ sstate = "loop"
  /\ Top.num <= LastNum
  /\ IF is_placement_valid(run_board, Top.cell, Top.num)
     THEN /\ run_board' = internal_place(run_board, Top.cell, Top.num)
          /\ stack' = [stack EXCEPT ![Len(stack)].placed = @ + 1]
          /\ sstate' = "call"
     ELSE /\ run_board' = run_board
          /\ stack' = [stack EXCEPT ![Len(stack)].num = next_num(@)]
          /\ sstate' = "loop"
  /\ board' = CallerSees(run_board')
  /\ UNCHANGED << config, from_result, prev, last, nops, panicked,
                  init_board, aliased, result >>

\* the for loop is over: the call returns false; its caller retracts the
\* digit it had placed and goes on with its next digit, and with no caller
\* left run returns None
SolveBacktrack ==
  /\ sstate = "loop"
  /\ Top.num > LastNum
  /\ IF Len(stack) = 1
     THEN /\ stack' = << >>
          /\ sstate' = "returned"
          /\ result' = [tag |-> "None", board |-> NoBoard]
          /\ run_board' = run_board
     ELSE LET parent == stack[Len(stack) - 1]
          IN /\ run_board' = retract(run_board, parent.cell)
             /\ stack' = [SubSeq(stack, 1, Len(stack) - 1)
                            EXCEPT ![Len(stack) - 1].num = next_num(@)]
             /\ sstate' = "loop"
             /\ result' = result
  /\ board' = CallerSees(run_board')
  /\ UNCHANGED << config, from_result, prev, last, nops, panicked,
                  init_board, aliased >>

SolverStep == SolveEnter \/ SolveTry \/ SolveBacktrack

\* the caller calls the board before and after a solve, never during one
CallerTurn == sstate \in {"idle", "returned"} /\ nops < MaxPlaced

SolveInit ==
  /\ config \in SolveConfigs
  /\ from_result = "none"
  /\ board = NoBoard
  /\ prev = NoBoard
  /\ last = NoCall
  /\ nops = 0
  /\ panicked = FALSE
  /\ SolverIdle

SolveNext ==
  \/ From
  \/ \E cell \in SolveCells : CallerTurn /\ Get(cell)
  \/ \E cell \in SolveCells : \E num \in SolveNums : CallerTurn /\ Set(cell, num)
  \/ \E cell \in SolveCells : \E num \in SolveNums :
        CallerTurn /\ ValidateMove(cell, num)
  \/ Run
  \/ SolveEnter
  \/ SolveTry
  \/ SolveBacktrack

\* run is synchronous: once called, the search keeps taking steps
SolveSpec == SolveInit /\ [][SolveNext]_vars /\ WF_vars(SolverStep)

\* ================================================================ claims
\* The lines and boxes of the grid, and invariant I2: in every row, column
\* and 3x3 box the non-zero values are pairwise distinct.
Units ==
  { { <<r, c>> : c \in Idx } : r \in Idx }
  \cup { { <<r, c>> : r \in Idx } : c \in Idx }
  \cup { { <<r, c>> : r \in br .. (br + B - 1), c \in bc .. (bc + B - 1) } :
           br \in BoxStarts, bc \in BoxStarts }

At(g, cell) == g[cell[1]][cell[2]]

I2(g) ==
  \A u \in Units : \A p \in u : \A q \in u :
     (p # q /\ At(g, p) # 0) => At(g, p) # At(g, q)

\* the last call was board.set on a cell of the grid
SetInGrid == last.op = "set" /\ InBounds(last.cell)

\* C1: after every set call that returns Ok the grid satisfies I2.
C1_SetPreservesI2 ==
  (last.op = "set" /\ last.res = "Ok") => I2(board.board)

\* C2: a set call on a given cell returns the starting-number error
\* (ImmutableCell) whatever the digit and leaves the board unchanged, and a
\* given cell always holds the value the configuration gave it.
C2_GivenCellImmutable ==
  from_result = "Ok" =>
    /\ \A r \in Idx : \A c \in Idx :
          board.initial_mask[r][c] => board.board[r][c] = config[r][c]
    /\ (SetInGrid /\ At(prev.initial_mask, last.cell))
          => (last.res = ErrStartingNumber /\ board = prev)

C2_Witness ==
  /\ SetInGrid
  /\ At(prev.initial_mask, last.cell)
  /\ last.num = 0
  /\ last.res = ErrStartingNumber

\* C3: a set call with a non-zero digit on a non-given cell that holds a
\* non-zero value fails (CellOccupied; the source has one string for every
\* invalid move) and the cell keeps its value.
C3_NoSilentOverwrite ==
  (/\ SetInGrid
   /\ ~At(prev.initial_mask, last.cell)
   /\ last.num # 0
   /\ At(prev.board, last.cell) # 0)
    => (/\ last.res = ErrInvalidMove
        /\ At(board.board, last.cell) = At(prev.board, last.cell))

\* C4: a set call that returns an error leaves the grid and the mask as
\* they were before the call.
C4_FailedSetLeavesBoard ==
  (last.op = "set" /\ last.res \in {ErrStartingNumber, ErrInvalidMove})
    => board = prev

C4_Witness ==
  /\ SetInGrid
  /\ last.res = ErrStartingNumber
  /\ last.num # At(prev.board, last.cell)
  /\ board = prev

\* C5: outside the grid get returns None and set returns the invalid-move
\* error (OutOfBounds) with the board unchanged, and neither panics; inside
\* the grid get returns the stored digit.
C5_OutOfBoundsSignalled ==
  /\ last.res # Panic
  /\ (last.op = "set" /\ ~InBounds(last.cell))
        => (last.res = ErrInvalidMove /\ board = prev)
  /\ (last.op = "get" /\ ~InBounds(last.cell)) => last.res = "None"
  /\ (last.op = "get" /\ InBounds(last.cell))
        => (last.res = "Some" /\ last.val = At(board.board, last.cell))

\* C6: the outcome of a set call is that of the first failing check in the
\* order OutOfBounds, ImmutableCell, clear, InvalidDigit, CellOccupied,
\* ConstraintViolation.  The source tells ImmutableCell apart by its string
\* and has one string for the other four kinds.
C6_CheckOrder ==
  last.op = "set" =>
    LET r == last.cell[1]
        c == last.cell[2]
        Peers == { p \in UNION { u \in Units : last.cell \in u } : p # last.cell }
        expected ==
          IF ~InBounds(last.cell) THEN "OutOfBounds"
          ELSE IF prev.initial_mask[r][c] THEN "ImmutableCell"
          ELSE IF last.num = 0 THEN "Ok"
          ELSE IF last.num \notin 1 .. 9 THEN "InvalidDigit"
          ELSE IF prev.board[r][c] # 0 THEN "CellOccupied"
          ELSE IF \E p \in Peers : At(prev.board, p) = last.num
               THEN "ConstraintViolation"
          ELSE "Ok"
        kinds ==
          IF last.res = "Ok" THEN {"Ok"}
          ELSE IF last.res = ErrStartingNumber THEN {"ImmutableCell"}
          ELSE IF last.res = ErrInvalidMove
               THEN {"OutOfBounds", "InvalidDigit", "CellOccupied",
                     "ConstraintViolation"}
          ELSE {}
    IN /\ expected \in kinds
       /\ expected # "Ok" => board = prev

\* C7: set with digit 0 on a non-given cell of the grid returns Ok and
\* leaves that cell 0 and every other cell as it was; on a cell that was
\* already 0 the board is unchanged.
C7_ClearAlwaysSucceeds ==
  (SetInGrid /\ last.num = 0 /\ ~At(prev.initial_mask, last.cell))
    => /\ last.res = "Ok"
       /\ board = [prev EXCEPT !.board[last.cell[1]][last.cell[2]] = 0]
       /\ At(prev.board, last.cell) = 0 => board = prev

C7_Witness ==
  /\ SetInGrid
  /\ last.num = 0
  /\ ~At(prev.initial_mask, last.cell)
  /\ At(prev.board, last.cell) # 0
  /\ last.res = "Ok"
  /\ At(board.board, last.cell) = 0

\* C8: after set(cell, d) with d # 0 returned Ok on an empty cell, the call
\* set(cell, 0) returns Ok, get(cell) is then Some(0) and the grid equals
\* the grid before the first of the two calls.
C8_PlaceThenClearRoundTrip ==
  [][ (/\ last.op = "set"
       /\ last.res = "Ok"
       /\ last.num # 0
       /\ At(prev.board, last.cell) = 0
       /\ nops' = nops + 1
       /\ last'.op = "set"
       /\ last'.cell = last.cell
       /\ last'.num = 0)
      => (/\ last'.res = "Ok"
          /\ board'.board = prev.board
          /\ get(board', last.cell) = [res |-> "Some", val |-> 0]) ]_vars

\* the second call on a fresh board cleared a cell that the configuration
\* left empty: the first call placed a digit there
C8_Witness ==
  /\ nops = 2
  /\ SetInGrid
  /\ last.num = 0
  /\ last.res = "Ok"
  /\ At(config, last.cell) = 0
  /\ At(prev.board, last.cell) \in 1 .. 9
  /\ board.board = config

\* C9: from returns the error exactly when a row, a column or a box of the
\* configuration holds a non-zero value twice, and otherwise a board whose
\* grid is the configuration.
C9_FromRejectsExactlyDuplicates ==
  (from_result # "none" /\ nops = 0) =>
    /\ (from_result = ErrInvalidConfig) <=> ~I2(config)
    /\ from_result = "Ok" => board.board = config

\* a configuration rejected for a box alone: its rows and columns are clean
C9_Witness ==
  /\ from_result = ErrInvalidConfig
  /\ RowsAndColsValid(config)

\* C10: from rejects every configuration that holds a value outside 0..9.
C10_FromRejectsOutOfRange ==
  (/\ from_result # "none"
   /\ \E r \in Idx : \E c \in Idx : config[r][c] \notin 0 .. 9)
    => from_result = ErrInvalidConfig

\* ======================================================== solver claims
AllCells == Idx \X Idx

\* the cells that share a row, a column or a box with cell
Peers(cell) == { p \in UNION { u \in Units : cell \in u } : p # cell }

EmptyCells(g) == { cell \in AllCells : At(g, cell) = 0 }

\* the grid g with its empty cells filled by f
Filled(g, f) ==
  [r \in Idx |-> [c \in Idx |-> IF g[r][c] = 0 THEN f[<<r, c>>] ELSE g[r][c]]]

\* the assignments of digits 1..9 to the empty cells of g under which the
\* full grid satisfies I2: g satisfies it, and no filled cell repeats a peer
Completions(g) ==
  IF ~I2(g) THEN {}
  ELSE LET E == EmptyCells(g)
       IN { h \in { Filled(g, f) : f \in [E -> 1 .. 9] } :
              \A e \in E : \A p \in Peers(e) : At(h, e) # At(h, p) }

Enumerable(g) == Cardinality(EmptyCells(g)) <= MaxBlank

RowMajor(cell) == cell[1] * N + cell[2]

\* h1 comes before h2 when the cells are read in row-major order
LexLess(h1, h2) ==
  \E cell \in AllCells :
     /\ At(h1, cell) < At(h2, cell)
     /\ \A q \in AllCells : RowMajor(q) < RowMajor(cell) => At(h1, q) = At(h2, q)

\* active calls of recursive_solve
Depth == Len(stack) + (IF sstate = "call" THEN 1 ELSE 0)

\* cells the search has filled and not retracted
Placed == { cell \in AllCells : At(init_board.board, cell) = 0
                                /\ At(run_board.board, cell) # 0 }

Searching == sstate \in {"call", "loop"}

\* C11: after from returned Ok the mask is true exactly where the
\* configuration is non-zero, on the caller's board and on the solver's,
\* whatever get, set, validate_move and run calls followed.
C11_MaskFixedAtConstruction ==
  from_result = "Ok" =>
    /\ \A r \in Idx : \A c \in Idx :
          board.initial_mask[r][c] <=> (config[r][c] # 0)
    /\ sstate # "idle" =>
          \A r \in Idx : \A c \in Idx :
             run_board.initial_mask[r][c] <=> (config[r][c] # 0)
    /\ result.tag = "Some" =>
          \A r \in Idx : \A c \in Idx :
             result.board.initial_mask[r][c] <=> (config[r][c] # 0)

\* run returned a board after the caller had placed a digit
C11_Witness ==
  /\ result.tag = "Some"
  /\ init_board.board # config
  /\ \E cell \in AllCells : At(config, cell) # 0
  /\ \A r \in Idx : \A c \in Idx :
        result.board.initial_mask[r][c] <=> (config[r][c] # 0)

\* C12: a board that run returns has no empty cell and satisfies I2.
C12_SolvedBoardSound ==
  result.tag = "Some" =>
    /\ EmptyCells(result.board.board) = {}
    /\ I2(result.board.board)

\* C13: run returns None exactly when the board it was given has no
\* completion.
C13_UnsolvableIffNoCompletion ==
  (sstate = "returned" /\ Enumerable(init_board.board)) =>
    ((result.tag = "None") <=> (Completions(init_board.board) = {}))

\* C14: when the board has several completions run returns the first of
\* them in row-major order of the cells with digits ascending.
C14_FirstCompletionReturned ==
  (sstate = "returned" /\ Enumerable(init_board.board)) =>
    LET Cs == Completions(init_board.board)
    IN Cardinality(Cs) >= 2 =>
         /\ result.tag = "Some"
         /\ result.board.board \in Cs
         /\ \A h \in Cs : h # result.board.board => LexLess(result.board.board, h)

C14_Witness ==
  /\ sstate = "returned"
  /\ result.tag = "Some"
  /\ Enumerable(init_board.board)
  /\ Cardinality(Completions(init_board.board)) >= 2

\* C15: from the call of run until the caller's next call the caller's
\* board (grid and mask) is what it was when run was called.
C15_CallerBoardUntouched ==
  (sstate # "idle" /\ last.op = "run") => board = init_board

\* the search holds a tentative digit and the caller's board does not
C15_Witness ==
  /\ sstate = "loop"
  /\ last.op = "run"
  /\ Placed # {}
  /\ run_board # board
  /\ board = init_board

\* C16: every search ends: run returns Some or None.
C16_SearchTerminates == Searching ~> (sstate = "returned")

\* run returned None after a search that had to backtrack or give up
C16_Witness ==
  /\ sstate = "returned"
  /\ result.tag = "None"
  /\ EmptyCells(init_board.board) # {}

\* C17: on an empty non-given cell of the grid and a digit 1..9, the scan
\* of validate_move answers false exactly when the digit is in the cell's
\* row, column or box at another cell.
C17_ScanFindsPeerDigit ==
  (/\ last.op = "validate_move"
   /\ InBounds(last.cell)
   /\ ~At(board.initial_mask, last.cell)
   /\ At(board.board, last.cell) = 0
   /\ last.num \in 1 .. 9)
    => ((last.res = "false")
          <=> (\E p \in Peers(last.cell) : At(board.board, p) = last.num))

\* the scan refused a digit that only the box holds
C17_Witness ==
  /\ last.op = "validate_move"
  /\ InBounds(last.cell)
  /\ At(board.board, last.cell) = 0
  /\ last.num \in 1 .. 9
  /\ last.res = "false"
  /\ \A p \in Peers(last.cell) :
        At(board.board, p) = last.num
          => (p[1] # last.cell[1] /\ p[2] # last.cell[2])

\* C18: when a call of recursive_solve returns false the board is what it
\* was when that call started, and when run returns None the solver's board
\* is the board run was given.
C18_FailedFrameRestoresBoard ==
  /\ (sstate = "loop" /\ Top.num > LastNum) => run_board.board = Top.entry
  /\ result.tag = "None" => run_board = init_board

\* a call below the top-level one fails after having placed digits
C18_Witness ==
  /\ sstate = "loop"
  /\ Len(stack) >= 2
  /\ Top.num > LastNum
  /\ Top.placed >= 1
  /\ run_board.board = Top.entry

\* C19: every cell that was non-zero when run was called holds that value
\* at every step of the search and in the board returned.
C19_OnlyEmptyCellsWritten ==
  sstate # "idle" =>
    \A cell \in AllCells :
       At(init_board.board, cell) # 0 =>
         /\ At(run_board.board, cell) = At(init_board.board, cell)
         /\ result.tag = "Some" =>
               At(result.board.board, cell) = At(init_board.board, cell)

\* run returned a board for a board that held a digit the caller placed
C19_Witness ==
  /\ result.tag = "Some"
  /\ \E cell \in AllCells :
        /\ At(init_board.board, cell) # 0
        /\ ~At(init_board.initial_mask, cell)
  /\ EmptyCells(init_board.board) # {}

\* C20: the number of active calls of recursive_solve is the number of
\* digits tentatively placed plus one, and at most the number of cells
\* that were empty when run was called plus one.
C20_DepthBounded ==
  Searching =>
    /\ Depth = Cardinality(Placed) + 1
    /\ Depth <= Cardinality(EmptyCells(init_board.board)) + 1
    /\ Cardinality(EmptyCells(init_board.board)) <= N * N

\* the base-case call: every cell that was empty holds a tentative digit
C20_Witness ==
  /\ sstate = "call"
  /\ Cardinality(EmptyCells(init_board.board)) >= 3
  /\ Depth = Cardinality(EmptyCells(init_board.board)) + 1

====
